---- MODULE Spec2Model ----
(***************************************************************************)
(* Usage accounting and quota subsystem of Cursive: the usage ledger       *)
(* (billing.track_usage), the quota gate (rate_limiter.check_usage_quota), *)
(* the two AI proxy endpoints (proxy.handle_claude_request and             *)
(* proxy.handle_claude_stream_request) and the Stripe webhook handlers     *)
(* (billing.stripe_webhook).                                               *)
(*                                                                         *)
(* The database is modelled as the three tables the subsystem touches:     *)
(* users (subscription_tier, encrypted_api_key), billing (one row per      *)
(* user, or none) and api_usage (append only).  A database transaction     *)
(* becomes visible at its commit; rows are read without a lock, so a       *)
(* handler that reads a row and later commits a value computed from it is  *)
(* two steps of the model.                                                 *)
(***************************************************************************)
EXTENDS Integers, Sequences, FiniteSets, TLC

\* ------------------------------------------------------------------ bounds

\* Requests served in one behaviour (by the two workers together).
MaxRequests == 2
\* Direct calls of track_usage in one behaviour of the ledger alone.
MaxCalls == 3
\* Webhook deliveries in one behaviour of the billing core.
MaxEvents == 2
\* Webhook deliveries and account operations in one behaviour of the
\* billing state machine alone.
MaxDeliveries == 3
\* Text chunks an upstream stream yields before its summary.
MaxChunks == 2
\* Requests in one behaviour of the rate limiter alone.
MaxBurst == 3
\* Rate-limit windows that expire in one behaviour of the rate limiter alone.
MaxWindows == 1
\* Recordings made while the accounts are registered and subscribed.
MaxRecordings == 1
\* The largest token count of a call when costs are computed, and the calls
\* of one such behaviour.
MaxTokens == 10
MaxCostCalls == 1
\* Admission checks and recordings in one behaviour of the gate against the
\* ledger.
MaxAdmissions == 4
\* Webhook deliveries and cancel requests in the life of one subscription.
MaxLifecycle == 4

\* --------------------------------------------------- program constants

\* os.getenv('FREE_TIER_TOKENS_PER_MONTH', '10000')
FREE_TIER_TOKENS_PER_MONTH == 10000
\* os.getenv('PRO_TIER_INCLUDED_TOKENS', '50000')
PRO_TIER_INCLUDED_TOKENS == 50000
\* os.getenv('ANTHROPIC_INPUT_PRICE', '0.003'): USD per 1K tokens, here in
\* thousandths of a dollar per 1K tokens.
ANTHROPIC_INPUT_PRICE == 3
\* os.getenv('ANTHROPIC_OUTPUT_PRICE', '0.015'), same unit.
ANTHROPIC_OUTPUT_PRICE == 15
\* os.getenv('MARKUP_PERCENTAGE', '15')
MARKUP_PERCENTAGE == 15
\* timedelta(days=30)
PERIOD_DAYS == 30
\* @limiter.limit("50 per minute") on both AI endpoints
RATE_LIMIT_PER_MINUTE == 50

\* ------------------------------------------------------------ value sets

Users == {"u1", "u2"}
\* The caller of a request that carries no session.
Anonymous == "anon"
Workers == {"w1", "w2"}
\* Values of subscription_tier.
Tiers == {"free", "pro", "enterprise"}
PaidTiers == {"pro", "enterprise"}
\* Stripe subscription ids and customer ids; None is the NULL column value.
None == "None"
SubIds == {"sub_1", "sub_2"}
CustomerOf(u) == IF u = "u1" THEN "cus_1" ELSE "cus_2"
\* Statuses a customer.subscription.updated payload carries: the handler
\* stores whatever string it finds there.
PayloadStatuses == {"active", "past_due", "unpaid", "canceled"}
\* (input_tokens, output_tokens) pairs an upstream response reports.
UsageChoices == {<<4000, 1000>>, <<5000, 1000>>}
\* No webhook event.
NoEvent ==
    [type |-> "none", user_id |-> None, tier |-> None,
     subscription |-> None, status |-> None, customer |-> None]
\* A user without a billing row.
NoBilling == [missing |-> TRUE]

VARIABLES
    subscription_tier,  \* users.subscription_tier, per user
    encrypted_api_key,  \* users.encrypted_api_key IS NOT NULL, per user
    billing,            \* the billing row of each user, or NoBilling
    api_usage,          \* the api_usage table, in commit order
    clock,              \* datetime.utcnow(): it advances between two readings
                        \* whose order the model tells apart
    pc,                 \* where each worker is in its request
    req,                \* each worker's request: its locals
    hits,               \* the rate limiter's storage: per key and endpoint,
                        \* the requests counted in the current window
    started,            \* requests begun so far
    events_done,        \* webhook deliveries and account operations so far
    limits,             \* the requests and events one behaviour may hold
    seen_checkouts,     \* checkout sessions handled so far
    last_event,         \* the webhook event of the last database commit, or NoEvent
    replay,             \* the last commit delivered the event of the commit before
    prev_event,         \* the webhook event dispatched before last_event, or NoEvent
    answer              \* the HTTP status of the last webhook delivery; "none"
                        \* before the first one and after an account operation

vars == <<subscription_tier, encrypted_api_key, billing, api_usage, clock,
          pc, req, hits, started, events_done, limits, seen_checkouts, last_event,
          replay, prev_event, answer>>

\* What only a committing webhook or account operation changes.
history == <<limits, seen_checkouts, last_event, replay, prev_event, answer>>

db == <<subscription_tier, encrypted_api_key, billing, api_usage>>

\* ------------------------------------------------------------- helpers

HasBilling(u) == billing[u] # NoBilling

RECURSIVE SumTokens(_)
SumTokens(rows) ==
    IF rows = <<>> THEN 0
    ELSE Head(rows).tokens_used + SumTokens(Tail(rows))

\* models.Billing(user_id=...): the column defaults.
NewBilling ==
    [subscription_status |-> "inactive",
     tokens_used_this_period |-> 0,
     stripe_customer_id |-> None,
     stripe_subscription_id |-> None,
     current_period_start |-> 0,
     current_period_end |-> 0]

\* ------------------------------------------------------------ cost model

\* round(Decimal, 6): Python rounds a Decimal half to even.  n / d with
\* d > 0, rounded to the nearest integer, ties to the even one.
\* A rounding that takes ties up.
RoundHalfUp(n, d) == (2 * n + d) \div (2 * d)

RoundHalfEven(n, d) ==
    LET q == n \div d
        r == n % d
    IN  IF 2 * r < d THEN q
        ELSE IF 2 * r > d THEN q + 1
        ELSE IF q % 2 = 0 THEN q ELSE q + 1

\* calculate_cost, in micro-dollars (six fractional digits):
\* (i/1000 * 0.003 + o/1000 * 0.015) * (1 + 15/100).
calculate_cost(tokens_input, tokens_output, model) ==
    RoundHalfEven((tokens_input * ANTHROPIC_INPUT_PRICE
                   + tokens_output * ANTHROPIC_OUTPUT_PRICE)
                  * (100 + MARKUP_PERCENTAGE), 100)

\* ------------------------------------------------------------ quota gate

Allowed == [has_quota |-> TRUE, reason |-> "none", quota |-> 0]
Denied(reason, quota) == [has_quota |-> FALSE, reason |-> reason, quota |-> quota]

\* A gate that still admits at exactly the quota.
QuotaExceededMutant(used, quota) == used > quota
\* The comparison of line 137.
QuotaExceeded(used, quota) == used >= quota

\* The quota of a tier that has one (lines 126-134): the free limit for
\* every tier that is neither pro nor enterprise.
TierQuota(tier) ==
    IF tier = "pro" THEN PRO_TIER_INCLUDED_TOKENS ELSE FREE_TIER_TOKENS_PER_MONTH

\* A gate that does not ask for the caller's API key.
check_usage_quota_no_exemption(has_key, tier, row) ==
    IF row = NoBilling THEN Denied("billing_not_found", 0)
    ELSE IF tier = "enterprise" THEN Allowed
    ELSE LET quota == TierQuota(tier)
         IN  IF QuotaExceeded(row.tokens_used_this_period, quota)
             THEN Denied("quota_exceeded", quota)
             ELSE Allowed

\* A gate that does not know the enterprise tier and meters it as free.
check_usage_quota_metered_enterprise(has_key, tier, row) ==
    IF has_key THEN Allowed
    ELSE IF row = NoBilling THEN Denied("billing_not_found", 0)
    ELSE LET quota == TierQuota(tier)
         IN  IF QuotaExceeded(row.tokens_used_this_period, quota)
             THEN Denied("quota_exceeded", quota)
             ELSE Allowed

\* A gate that looks at the tier before it looks for the billing row.
check_usage_quota_tier_first(has_key, tier, row) ==
    IF has_key THEN Allowed
    ELSE IF tier = "enterprise" THEN Allowed
    ELSE IF row = NoBilling THEN Denied("billing_not_found", 0)
    ELSE LET quota == TierQuota(tier)
         IN  IF QuotaExceeded(row.tokens_used_this_period, quota)
             THEN Denied("quota_exceeded", quota)
             ELSE Allowed

\* check_usage_quota(user) on the rows given.
check_usage_quota(has_key, tier, row) ==
    IF has_key THEN Allowed
    ELSE IF row = NoBilling THEN Denied("billing_not_found", 0)
    ELSE IF tier = "enterprise" THEN Allowed
    ELSE LET quota == TierQuota(tier)
         IN  IF QuotaExceeded(row.tokens_used_this_period, quota)
             THEN Denied("quota_exceeded", quota)
             ELSE Allowed

\* ------------------------------------------------------------- requests

\* A worker's locals before it has a request.
NoRequest ==
    [rid |-> 0, user |-> Anonymous, kind |-> "none", is_byok |-> FALSE,
     gate |-> "none", gate_used |-> 0, gate_quota |-> 0, rate |-> "none",
     tokens_input |-> 0, tokens_output |-> 0, rd |-> 0, created_at |-> 0,
     out |-> <<>>, status |-> "none", recorded |-> "no"]

Free(p) == pc[p] \in {"idle", "finished"}

\* get_user_id_for_rate_limit: "user:<id>" for a session, "ip:<address>"
\* without one (the callers without session share one address here).
RateKeyByAddress(u) == Anonymous
RateKey(u) == u

\* The endpoints that carry @limiter.limit("50 per minute"); each decorator
\* is a limit of its own, counted per key for its endpoint.
Endpoints == {"sync", "stream"}

\* The fixed window of "50 per minute": the hit is counted, and the request
\* passes when the count, this hit included, is within the limit.  h is the
\* count before the hit.
RateExceededAfter(h) == h > RATE_LIMIT_PER_MINUTE
RateExceeded(h) == h + 1 > RATE_LIMIT_PER_MINUTE

\* An AI request arrives.  before_request runs check_quota_middleware, which
\* asks the gate for a caller with a session only; then the view's
\* limiter.limit wrapper counts the request against the caller's key; then
\* the view picks the API key from the same current_user object.  kind is
\* "sync" for /api/claude and "stream" for /api/claude/stream.
Request(p, u, kind) ==
    /\ Free(p)
    /\ started < limits.requests
    /\ started' = started + 1
    /\ LET authenticated == u # Anonymous
           has_key == authenticated /\ encrypted_api_key[u]
           verdict == IF authenticated
                      THEN check_usage_quota(has_key, subscription_tier[u], billing[u])
                      ELSE Allowed
           r0 == [NoRequest EXCEPT !.rid = started + 1, !.user = u, !.kind = kind,
                                   !.is_byok = has_key]
           \* What the gate compared, kept for accounting.
           r1 == IF authenticated /\ ~has_key /\ HasBilling(u)
                    /\ subscription_tier[u] # "enterprise"
                 THEN [r0 EXCEPT !.gate_used = billing[u].tokens_used_this_period,
                                 !.gate_quota = TierQuota(subscription_tier[u])]
                 ELSE r0
           key == RateKey(u)
       IN  IF ~verdict.has_quota
           THEN /\ pc' = [pc EXCEPT ![p] = "finished"]
                /\ req' = [req EXCEPT ![p] = [r1 EXCEPT !.gate = verdict.reason,
                                                        !.status = "429"]]
                /\ hits' = hits
           ELSE LET r2 == [r1 EXCEPT !.gate = IF authenticated THEN "allowed"
                                                               ELSE "skipped"]
                IN  /\ hits' = [hits EXCEPT ![key][kind] = @ + 1]
                    /\ IF RateExceeded(hits[key][kind])
                       THEN /\ pc' = [pc EXCEPT ![p] = "finished"]
                            /\ req' = [req EXCEPT ![p] = [r2 EXCEPT !.rate = "denied",
                                                                    !.status = "429"]]
                       ELSE /\ pc' = [pc EXCEPT ![p] =
                                         IF kind = "sync" THEN "upstream" ELSE "stream"]
                            /\ req' = [req EXCEPT ![p] = [r2 EXCEPT !.rate = "allowed"]]
    /\ UNCHANGED <<db, clock, events_done, history>>

\* The window of a key on an endpoint ends (its first hit is a minute old):
\* the storage drops the count.
WindowExpires(key, endpoint) ==
    /\ events_done < limits.events
    /\ events_done' = events_done + 1
    /\ hits[key][endpoint] > 0
    /\ hits' = [hits EXCEPT ![key][endpoint] = 0]
    /\ UNCHANGED <<db, clock, pc, req, started, history>>

\* A view that records the usage of every caller with a session.
BillableAnySession(r) == r.user # Anonymous
\* Whether the view records usage: user_id and not BYOK.
Billable(r) == r.user # Anonymous /\ ~r.is_byok

\* What line 101 keeps of the billing row: its counter, or -1 for no row.
ReadCounter(row) == IF row = NoBilling THEN -1 ELSE row.tokens_used_this_period

\* track_usage, lines 85-101, for the request r: the APIUsage row is built and
\* flushed (its created_at is stamped) and the billing row is read.
TrackRead(r) ==
    [r EXCEPT !.rd = ReadCounter(billing[r.user]), !.created_at = clock]

\* messages.create returns; for a billable caller the view calls track_usage
\* with the usage of the response, which runs up to its read of the billing
\* row.
UpstreamReply(p, usage) ==
    /\ pc[p] = "upstream"
    /\ IF Billable(req[p])
       THEN /\ pc' = [pc EXCEPT ![p] = "track_commit"]
            /\ req' = [req EXCEPT ![p] = TrackRead([@ EXCEPT !.tokens_input = usage[1],
                                                             !.tokens_output = usage[2],
                                                             !.status = "200"])]
       ELSE /\ pc' = [pc EXCEPT ![p] = "finished"]
            /\ req' = [req EXCEPT ![p].status = "200"]
    /\ UNCHANGED <<db, hits, clock, started, events_done, history>>

\* A view that calls messages.create again after it raised.
UpstreamErrorRetried(p) ==
    /\ pc[p] = "upstream"
    /\ pc' = [pc EXCEPT ![p] = "upstream"]
    /\ req' = [req EXCEPT ![p].status = "500"]
    /\ UNCHANGED <<db, hits, clock, started, events_done, history>>

\* messages.create raises (anthropic.APIError, a timeout): 500, no usage.
UpstreamError(p) ==
    /\ pc[p] = "upstream"
    /\ pc' = [pc EXCEPT ![p] = "finished"]
    /\ req' = [req EXCEPT ![p].status = "500"]
    /\ UNCHANGED <<db, hits, clock, started, events_done, history>>

\* --------------------------------------------------------- usage ledger

\* track_usage called directly, as the ledger's interface, up to its read of
\* the billing row.
TrackCall(p, u, usage) ==
    /\ Free(p)
    /\ started < limits.requests
    /\ started' = started + 1
    /\ pc' = [pc EXCEPT ![p] = "track_commit"]
    /\ req' = [req EXCEPT ![p] =
                  TrackRead([NoRequest EXCEPT !.rid = started + 1, !.user = u,
                                              !.kind = "ledger",
                                              !.tokens_input = usage[1],
                                              !.tokens_output = usage[2]])]
    /\ UNCHANGED <<db, hits, clock, events_done, history>>

\* An APIUsage row whose input and output counts are exchanged.
UsageRowSwapped(r) ==
    [user_id |-> r.user,
     tokens_used |-> r.tokens_input + r.tokens_output,
     tokens_input |-> r.tokens_output,
     tokens_output |-> r.tokens_input,
     cost |-> calculate_cost(r.tokens_input, r.tokens_output, "model"),
     endpoint |-> r.kind,
     created_at |-> r.created_at,
     rid |-> r.rid]

\* The APIUsage row of a request (rid is the request, kept for accounting).
UsageRow(r) ==
    [user_id |-> r.user,
     tokens_used |-> r.tokens_input + r.tokens_output,
     tokens_input |-> r.tokens_input,
     tokens_output |-> r.tokens_output,
     cost |-> calculate_cost(r.tokens_input, r.tokens_output, "model"),
     endpoint |-> r.kind,
     created_at |-> r.created_at,
     rid |-> r.rid]

\* The value line 103 assigns to tokens_used_this_period: the counter read at
\* line 101 plus the request's tokens (row is the row at the commit).
NewCounter(row, r) == r.rd + r.tokens_input + r.tokens_output

\* A ledger that creates the billing row it does not find.
CommittedBillingUpsert(r) ==
    IF HasBilling(r.user)
    THEN [billing EXCEPT ![r.user].tokens_used_this_period = NewCounter(billing[r.user], r)]
    ELSE [billing EXCEPT ![r.user] =
              [NewBilling EXCEPT !.tokens_used_this_period = r.tokens_input + r.tokens_output]]

\* track_usage, lines 102-104: the billing table after the commit; the
\* counter is written only when line 101 found a row.
CommittedBilling(r) ==
    IF r.rd >= 0 /\ HasBilling(r.user)
    THEN [billing EXCEPT ![r.user].tokens_used_this_period = NewCounter(billing[r.user], r)]
    ELSE billing

\* track_usage, lines 102-106: the counter is written when a row was read,
\* and the transaction commits.
TrackCommit(p) ==
    /\ pc[p] = "track_commit"
    /\ api_usage' = Append(api_usage, UsageRow(req[p]))
    /\ billing' = CommittedBilling(req[p])
    /\ pc' = [pc EXCEPT ![p] = "finished"]
    /\ req' = [req EXCEPT ![p].recorded = "yes"]
    /\ last_event' = NoEvent
    /\ replay' = FALSE
    /\ prev_event' = NoEvent
    /\ UNCHANGED <<subscription_tier, encrypted_api_key, hits, clock, started,
                   events_done, limits, seen_checkouts, answer>>

\* track_usage, lines 115-118: an exception (the database refuses the flush
\* or the commit); the transaction is rolled back and None is returned.
TrackRollback(p) ==
    /\ pc[p] = "track_commit"
    /\ pc' = [pc EXCEPT ![p] = "finished"]
    /\ req' = [req EXCEPT ![p].recorded = "failed"]
    /\ UNCHANGED <<db, hits, clock, started, events_done, history>>

\* ------------------------------------------------- streaming generator

Chunks(r) == Len(SelectSeq(r.out, LAMBDA x : x = "chunk"))

\* generate(), lines 326-332: the upstream stream yields a text chunk, which
\* is forwarded; the generator is suspended at the yield.
StreamChunk(p) ==
    /\ pc[p] = "stream"
    /\ Chunks(req[p]) < MaxChunks
    /\ req' = [req EXCEPT ![p].out = Append(@, "chunk")]
    /\ UNCHANGED <<db, hits, clock, pc, started, events_done, history>>

\* generate(), lines 334-340: the text stream ends, the final message gives
\* the usage, and [DONE] is yielded; the generator is suspended at that yield.
StreamSummary(p, usage) ==
    /\ pc[p] = "stream"
    /\ pc' = [pc EXCEPT ![p] = "at_done"]
    /\ req' = [req EXCEPT ![p].tokens_input = usage[1],
                          ![p].tokens_output = usage[2],
                          ![p].out = Append(@, "done")]
    /\ UNCHANGED <<db, hits, clock, started, events_done, history>>

\* generate(), lines 342-353: resumed after [DONE], the generator records the
\* usage of a billable caller: track_usage runs up to its read of the
\* billing row.
StreamResume(p) ==
    /\ pc[p] = "at_done"
    /\ IF Billable(req[p])
       THEN /\ pc' = [pc EXCEPT ![p] = "track_commit"]
            /\ req' = [req EXCEPT ![p] = TrackRead([@ EXCEPT !.status = "200"])]
       ELSE /\ pc' = [pc EXCEPT ![p] = "finished"]
            /\ req' = [req EXCEPT ![p].status = "200"]
    /\ UNCHANGED <<db, hits, clock, started, events_done, history>>

\* A generator that goes on to [DONE] after its error event.
StreamErrorThenDone(p) ==
    /\ pc[p] = "stream"
    /\ pc' = [pc EXCEPT ![p] = "at_done"]
    /\ req' = [req EXCEPT ![p].out = @ \o <<"error", "done">>,
                          ![p].status = "stream_error"]
    /\ UNCHANGED <<db, hits, clock, started, events_done, history>>

\* generate(), lines 355-363: the upstream stream raises before its summary;
\* one error event is yielded and the generator ends.
StreamError(p) ==
    /\ pc[p] = "stream"
    /\ pc' = [pc EXCEPT ![p] = "finished"]
    /\ req' = [req EXCEPT ![p].out = Append(@, "error"), ![p].status = "stream_error"]
    /\ UNCHANGED <<db, hits, clock, started, events_done, history>>

\* generate(), lines 321-338: the generator is inside the with-block of
\* messages.stream, whose exit closes the upstream stream.
UpstreamOpen(p) == pc[p] = "stream"

\* A generator whose cleanup records the usage when it is closed at [DONE].
StreamCloseRecorded(p) ==
    /\ pc[p] \in {"stream", "at_done"}
    /\ IF pc[p] = "at_done" /\ Billable(req[p])
       THEN /\ pc' = [pc EXCEPT ![p] = "track_commit"]
            /\ req' = [req EXCEPT ![p] = TrackRead([@ EXCEPT !.status = "closed"])]
       ELSE /\ pc' = [pc EXCEPT ![p] = "finished"]
            /\ req' = [req EXCEPT ![p].status = "closed"]
    /\ UNCHANGED <<db, hits, clock, started, events_done, history>>

\* The caller disconnects while the generator is suspended at a yield (or
\* before it was started): the server closes the generator, GeneratorExit is
\* raised at the yield and no except clause of generate() catches it.
StreamClose(p) ==
    /\ pc[p] \in {"stream", "at_done"}
    /\ pc' = [pc EXCEPT ![p] = "finished"]
    /\ req' = [req EXCEPT ![p].status = "closed"]
    /\ UNCHANGED <<db, hits, clock, started, events_done, history>>

\* ------------------------------------------------------------- webhooks

\* The part of the database the webhook handlers read and write.
Accounts == [billing |-> billing, tier |-> subscription_tier]

\* Billing.query.filter_by(stripe_subscription_id=id).first(): the users whose
\* row holds the id (at most one: the column is unique).
BySubscription(s, id) ==
    {u \in Users : s.billing[u] # NoBilling /\ s.billing[u].stripe_subscription_id = id}

\* Billing.query.filter_by(stripe_customer_id=id).first().
ByCustomer(s, id) ==
    {u \in Users : s.billing[u] # NoBilling /\ s.billing[u].stripe_customer_id = id}

\* The events Stripe delivers, by type, with the fields the handlers read.
CheckoutEvents ==
    {[type |-> "checkout.session.completed", user_id |-> u, tier |-> t,
      subscription |-> id, status |-> None, customer |-> None]
        : u \in Users, t \in PaidTiers, id \in SubIds}
UpdatedEvents ==
    {[type |-> "customer.subscription.updated", user_id |-> None, tier |-> None,
      subscription |-> id, status |-> st, customer |-> None]
        : id \in SubIds, st \in PayloadStatuses}
DeletedEvents ==
    {[type |-> "customer.subscription.deleted", user_id |-> None, tier |-> None,
      subscription |-> id, status |-> None, customer |-> None] : id \in SubIds}
FailedEvents ==
    {[type |-> "invoice.payment_failed", user_id |-> None, tier |-> None,
      subscription |-> None, status |-> None, customer |-> CustomerOf(u)] : u \in Users}
OtherEvents ==
    {[type |-> "invoice.paid", user_id |-> None, tier |-> None,
      subscription |-> None, status |-> None, customer |-> CustomerOf(u)] : u \in Users}
Events == CheckoutEvents \cup UpdatedEvents \cup DeletedEvents \cup FailedEvents
              \cup OtherEvents

\* A handler that activates only a record that is not active yet.
handle_checkout_completed_once(s, session, t_start, t_end) ==
    LET u == session.user_id
    IN  IF s.billing[u] = NoBilling THEN s
        ELSE IF s.billing[u].subscription_status # "inactive" THEN s
        ELSE IF BySubscription(s, session.subscription) \ {u} # {} THEN s
        ELSE [billing |-> [s.billing EXCEPT
                  ![u].stripe_subscription_id = session.subscription,
                  ![u].subscription_status = "active",
                  ![u].current_period_start = t_start,
                  ![u].current_period_end = t_end + PERIOD_DAYS,
                  ![u].tokens_used_this_period = 0],
              tier |-> [s.tier EXCEPT ![u] = session.tier]]

\* handle_checkout_completed: t_start and t_end are the two utcnow() readings.
\* The commit fails on the unique stripe_subscription_id when another row
\* holds the id; nothing is written then.
handle_checkout_completed(s, session, t_start, t_end) ==
    LET u == session.user_id
    IN  IF s.billing[u] = NoBilling THEN s
        ELSE IF BySubscription(s, session.subscription) \ {u} # {} THEN s
        ELSE [billing |-> [s.billing EXCEPT
                  ![u].stripe_subscription_id = session.subscription,
                  ![u].subscription_status = "active",
                  ![u].current_period_start = t_start,
                  ![u].current_period_end = t_end + PERIOD_DAYS,
                  ![u].tokens_used_this_period = 0],
              tier |-> [s.tier EXCEPT ![u] = session.tier]]

\* A handler that also downgrades the account when the subscription is no
\* longer active.
handle_subscription_updated_downgrade(s, subscription) ==
    LET found == BySubscription(s, subscription.subscription)
    IN  IF found = {} THEN s
        ELSE LET u == CHOOSE u \in found : TRUE
             IN  [billing |-> [s.billing EXCEPT
                       ![u].subscription_status = subscription.status],
                  tier |-> [s.tier EXCEPT ![u] =
                       IF subscription.status = "active" THEN @ ELSE "free"]]

\* A handler that never leaves the unpaid status.
handle_subscription_updated_sticky(s, subscription) ==
    LET found == BySubscription(s, subscription.subscription)
    IN  IF found = {} THEN s
        ELSE LET u == CHOOSE u \in found : TRUE
             IN  [s EXCEPT !.billing[u].subscription_status =
                      IF @ = "unpaid" THEN @ ELSE subscription.status]

\* handle_subscription_updated.
handle_subscription_updated(s, subscription) ==
    LET found == BySubscription(s, subscription.subscription)
    IN  IF found = {} THEN s
        ELSE LET u == CHOOSE u \in found : TRUE
             IN  [s EXCEPT !.billing[u].subscription_status = subscription.status]

\* A handler that also starts a new period for the free tier.
handle_subscription_deleted_reset(s, subscription) ==
    LET found == BySubscription(s, subscription.subscription)
    IN  IF found = {} THEN s
        ELSE LET u == CHOOSE u \in found : TRUE
             IN  [billing |-> [s.billing EXCEPT
                       ![u].subscription_status = "canceled",
                       ![u].stripe_subscription_id = None,
                       ![u].tokens_used_this_period = 0],
                  tier |-> [s.tier EXCEPT ![u] = "free"]]

\* A handler that keeps the subscription id on the canceled row.
handle_subscription_deleted_keep_id(s, subscription) ==
    LET found == BySubscription(s, subscription.subscription)
    IN  IF found = {} THEN s
        ELSE LET u == CHOOSE u \in found : TRUE
             IN  [billing |-> [s.billing EXCEPT
                       ![u].subscription_status = "canceled"],
                  tier |-> [s.tier EXCEPT ![u] = "free"]]

\* A handler that leaves the tier as it is.
handle_subscription_deleted_keep_tier(s, subscription) ==
    LET found == BySubscription(s, subscription.subscription)
    IN  IF found = {} THEN s
        ELSE LET u == CHOOSE u \in found : TRUE
             IN  [s EXCEPT !.billing[u].subscription_status = "canceled",
                           !.billing[u].stripe_subscription_id = None]

\* handle_subscription_deleted.
handle_subscription_deleted(s, subscription) ==
    LET found == BySubscription(s, subscription.subscription)
    IN  IF found = {} THEN s
        ELSE LET u == CHOOSE u \in found : TRUE
             IN  [billing |-> [s.billing EXCEPT
                       ![u].subscription_status = "canceled",
                       ![u].stripe_subscription_id = None],
                  tier |-> [s.tier EXCEPT ![u] = "free"]]

\* A handler that looks the record up by the invoice's subscription id.
handle_payment_failed_by_subscription(s, invoice) ==
    LET found == BySubscription(s, invoice.subscription)
    IN  IF found = {} THEN s
        ELSE LET u == CHOOSE u \in found : TRUE
             IN  [s EXCEPT !.billing[u].subscription_status = "past_due"]

\* A handler that cancels on the second failed payment.
handle_payment_failed_twice(s, invoice) ==
    LET found == ByCustomer(s, invoice.customer)
    IN  IF found = {} THEN s
        ELSE LET u == CHOOSE u \in found : TRUE
             IN  [s EXCEPT !.billing[u].subscription_status =
                      IF @ = "past_due" THEN "canceled" ELSE "past_due"]

\* handle_payment_failed.
handle_payment_failed(s, invoice) ==
    LET found == ByCustomer(s, invoice.customer)
    IN  IF found = {} THEN s
        ELSE LET u == CHOOSE u \in found : TRUE
             IN  [s EXCEPT !.billing[u].subscription_status = "past_due"]

\* A dispatch that hands every invoice event to handle_payment_failed.
DispatchInvoices(s, event, t_start, t_end) ==
    IF event.type = "checkout.session.completed"
    THEN handle_checkout_completed(s, event, t_start, t_end)
    ELSE IF event.type = "customer.subscription.updated"
    THEN handle_subscription_updated(s, event)
    ELSE IF event.type = "customer.subscription.deleted"
    THEN handle_subscription_deleted(s, event)
    ELSE IF event.type \in {"invoice.payment_failed", "invoice.paid"}
    THEN handle_payment_failed(s, event)
    ELSE s

\* stripe_webhook, lines 368-386: the dispatch on the event type.
Dispatch(s, event, t_start, t_end) ==
    IF event.type = "checkout.session.completed"
    THEN handle_checkout_completed(s, event, t_start, t_end)
    ELSE IF event.type = "customer.subscription.updated"
    THEN handle_subscription_updated(s, event)
    ELSE IF event.type = "customer.subscription.deleted"
    THEN handle_subscription_deleted(s, event)
    ELSE IF event.type = "invoice.payment_failed"
    THEN handle_payment_failed(s, event)
    ELSE s

\* stripe_webhook, lines 368-390: the answer to a delivery whose signature
\* verifies.  A handler's exception (the unique stripe_subscription_id refuses
\* the commit of handle_checkout_completed) is answered with 500, anything else
\* with success.
WebhookAnswer(s, event) ==
    IF /\ event.type = "checkout.session.completed"
       /\ s.billing[event.user_id] # NoBilling
       /\ BySubscription(s, event.subscription) \ {event.user_id} # {}
    THEN "500" ELSE "200"

\* stripe_webhook on a delivery whose signature verifies.  The two utcnow()
\* readings of handle_checkout_completed are d ticks apart.
Deliver(event, d) ==
    /\ events_done < limits.events
    /\ events_done' = events_done + 1
    /\ LET after == Dispatch(Accounts, event, clock + 1, clock + 1 + d)
       IN  /\ billing' = after.billing
           /\ subscription_tier' = after.tier
    /\ clock' = IF event.type = "checkout.session.completed" THEN clock + 1 + d ELSE clock
    /\ seen_checkouts' = seen_checkouts \cup ({event} \cap CheckoutEvents)
    /\ last_event' = event
    /\ replay' = (last_event = event)
    /\ prev_event' = last_event
    /\ answer' = WebhookAnswer(Accounts, event)
    /\ UNCHANGED <<encrypted_api_key, api_usage, hits, pc, req, started, limits>>

\* A webhook that dispatches the event before it answers 400.
DeliverUnverified(event) ==
    /\ events_done < limits.events
    /\ events_done' = events_done + 1
    /\ answer' = "400"
    /\ LET after == Dispatch(Accounts, event, clock, clock)
       IN  /\ billing' = after.billing
           /\ subscription_tier' = after.tier
    /\ UNCHANGED <<encrypted_api_key, api_usage, hits, clock, pc, req, started,
                   limits, seen_checkouts, last_event, replay, prev_event>>

\* stripe_webhook, lines 357-366: construct_event rejects the payload or the
\* signature; 400 and no handler runs.
DeliverUnsigned(event) ==
    /\ events_done < limits.events
    /\ events_done' = events_done + 1
    /\ answer' = "400"
    /\ UNCHANGED <<db, hits, clock, pc, req, started, limits, seen_checkouts,
                   last_event, replay, prev_event>>

\* ---------------------------------------------------- account operations

\* create_checkout_session, lines 246-261: the billing row is created when it
\* is missing and committed; the Stripe customer is created when the row has
\* none (stripe_ok: the Stripe call succeeds).
CreateCheckoutSession(u, stripe_ok) ==
    /\ events_done < limits.events
    /\ events_done' = events_done + 1
    /\ LET row == IF HasBilling(u) THEN billing[u] ELSE NewBilling
       IN  billing' = [billing EXCEPT ![u] =
                          IF row.stripe_customer_id = None /\ stripe_ok
                          THEN [row EXCEPT !.stripe_customer_id = CustomerOf(u)]
                          ELSE row]
    /\ last_event' = NoEvent
    /\ replay' = FALSE
    /\ prev_event' = NoEvent
    /\ answer' = "none"
    /\ UNCHANGED <<subscription_tier, encrypted_api_key, api_usage, hits, clock, pc,
                   req, started, limits, seen_checkouts>>

\* A cancellation that writes another spelling of the status.
CancelSubscriptionMisspelled(u) ==
    /\ events_done < limits.events
    /\ events_done' = events_done + 1
    /\ billing' = IF HasBilling(u) /\ billing[u].stripe_subscription_id # None
                  THEN [billing EXCEPT ![u].subscription_status = "cancelling"]
                  ELSE billing
    /\ last_event' = NoEvent
    /\ replay' = FALSE
    /\ prev_event' = NoEvent
    /\ answer' = "none"
    /\ UNCHANGED <<subscription_tier, encrypted_api_key, api_usage, hits, clock, pc,
                   req, started, limits, seen_checkouts>>

\* A cancellation that takes effect at once.
CancelSubscriptionAtOnce(u) ==
    /\ events_done < limits.events
    /\ events_done' = events_done + 1
    /\ billing' = IF HasBilling(u) /\ billing[u].stripe_subscription_id # None
                  THEN [billing EXCEPT ![u].subscription_status = "canceled"]
                  ELSE billing
    /\ last_event' = NoEvent
    /\ replay' = FALSE
    /\ prev_event' = NoEvent
    /\ answer' = "none"
    /\ UNCHANGED <<subscription_tier, encrypted_api_key, api_usage, hits, clock, pc,
                   req, started, limits, seen_checkouts>>

\* cancel_subscription, lines 316-328: 404 without a subscription id;
\* otherwise (Stripe accepts the change) the status becomes canceling.
CancelSubscription(u) ==
    /\ events_done < limits.events
    /\ events_done' = events_done + 1
    /\ billing' = IF HasBilling(u) /\ billing[u].stripe_subscription_id # None
                  THEN [billing EXCEPT ![u].subscription_status = "canceling"]
                  ELSE billing
    /\ last_event' = NoEvent
    /\ replay' = FALSE
    /\ prev_event' = NoEvent
    /\ answer' = "none"
    /\ UNCHANGED <<subscription_tier, encrypted_api_key, api_usage, hits, clock, pc,
                   req, started, limits, seen_checkouts>>

\* --------------------------------------------------------- registration

\* The value of subscription_tier for an address that has no users row.
NoAccount == None
Exists(u) == subscription_tier[u] # NoAccount

\* A registration that commits the users row alone.
RegisterWithoutBilling(u, db_ok) ==
    /\ events_done < limits.events
    /\ events_done' = events_done + 1
    /\ IF ~Exists(u) /\ db_ok
       THEN subscription_tier' = [subscription_tier EXCEPT ![u] = "free"]
       ELSE UNCHANGED subscription_tier
    /\ last_event' = NoEvent
    /\ replay' = FALSE
    /\ prev_event' = NoEvent
    /\ answer' = "none"
    /\ UNCHANGED <<billing, encrypted_api_key, api_usage, hits, clock, pc, req,
                   started, limits, seen_checkouts>>

\* auth.register, lines 192-217 and 235-238: 400 when the address is
\* registered; otherwise the users row (tier free) and its billing row are
\* added and committed together, or (db_ok false) the transaction is rolled
\* back and nothing is written.
Register(u, db_ok) ==
    /\ events_done < limits.events
    /\ events_done' = events_done + 1
    /\ IF ~Exists(u) /\ db_ok
       THEN /\ subscription_tier' = [subscription_tier EXCEPT ![u] = "free"]
            /\ billing' = [billing EXCEPT ![u] = NewBilling]
       ELSE UNCHANGED <<subscription_tier, billing>>
    /\ last_event' = NoEvent
    /\ replay' = FALSE
    /\ prev_event' = NoEvent
    /\ answer' = "none"
    /\ UNCHANGED <<encrypted_api_key, api_usage, hits, clock, pc, req, started,
                   limits, seen_checkouts>>

\* ------------------------------------------------------- specifications

\* The rate limiter's storage when no request was counted in the last minute.
NoHits == [k \in Users \cup {Anonymous} |-> [e \in Endpoints |-> 0]]

\* What every specification starts from, given the users' rows.
Start(tiers, keys, rows, counted, max_requests, max_events) ==
    /\ subscription_tier = tiers
    /\ encrypted_api_key = keys
    /\ billing = rows
    /\ api_usage = <<>>
    /\ clock = 1
    /\ pc = [p \in Workers |-> "idle"]
    /\ req = [p \in Workers |-> NoRequest]
    /\ hits = counted
    /\ started = 0
    /\ events_done = 0
    /\ limits = [requests |-> max_requests, events |-> max_events]
    /\ seen_checkouts = {}
    /\ last_event = NoEvent
    /\ replay = FALSE
    /\ prev_event = NoEvent
    /\ answer = "none"

\* auth.register: a new account is free and has a billing row.
Registered == NewBilling
\* A registered account that opened a checkout session once.
WithCustomer(u) == [NewBilling EXCEPT !.stripe_customer_id = CustomerOf(u)]

\* The billing core: AI requests of two registered accounts against the
\* quota gate and the ledger, and the webhook deliveries.
Init ==
    Start([u \in Users |-> "free"], [u \in Users |-> FALSE],
          [u \in Users |-> WithCustomer(u)], NoHits, MaxRequests, MaxEvents)

\* The events about the first account.
CoreEvents ==
    {e \in Events : /\ e.type # "invoice.paid"
                    /\ e.user_id \in {"u1", None}
                    /\ e.subscription \in {"sub_1", None}
                    /\ e.customer \in {"cus_1", None}
                    /\ e.status \in {"past_due", None}}
\* The usage a response reports in the billing core.
CoreUsage == {<<4000, 1000>>, <<6000, 4000>>}

Next ==
    \/ \E p \in Workers : Request(p, "u1", "sync")
    \/ \E p \in Workers, usage \in CoreUsage : UpstreamReply(p, usage)
    \/ \E p \in Workers : UpstreamError(p)
    \/ \E p \in Workers : TrackCommit(p)
    \/ \E p \in Workers : TrackRollback(p)
    \/ \E e \in CoreEvents : Deliver(e, 0)

Spec == Init /\ [][Next]_vars

\* The usage ledger alone: track_usage called concurrently.  The second
\* account has no billing row (an account that predates the billing table).
LedgerInit ==
    Start([u \in Users |-> "free"], [u \in Users |-> FALSE],
          [u \in Users |-> IF u = "u1" THEN Registered ELSE NoBilling],
          NoHits, MaxCalls, 0)

LedgerNext ==
    \/ \E p \in Workers, u \in Users, usage \in UsageChoices : TrackCall(p, u, usage)
    \/ \E p \in Workers : TrackCommit(p)
    \/ \E p \in Workers : TrackRollback(p)

SpecLedger == LedgerInit /\ [][LedgerNext]_vars

\* The streaming endpoint: the first account is billable, the second has its
\* own API key, and a caller may carry no session.
StreamInit ==
    Start([u \in Users |-> "free"], [u \in Users |-> u = "u2"],
          [u \in Users |-> Registered], NoHits, MaxRequests, 0)

StreamNext ==
    \/ \E p \in Workers, u \in Users \cup {Anonymous} : Request(p, u, "stream")
    \/ \E p \in Workers : StreamChunk(p)
    \/ \E p \in Workers, usage \in UsageChoices : StreamSummary(p, usage)
    \/ \E p \in Workers : StreamResume(p)
    \/ \E p \in Workers : StreamError(p)
    \/ \E p \in Workers : StreamClose(p)
    \/ \E p \in Workers : TrackCommit(p)
    \/ \E p \in Workers : TrackRollback(p)

SpecStream == StreamInit /\ [][StreamNext]_vars

\* The billing state machine alone: webhook deliveries and the two account
\* operations that write the billing row, on two registered accounts.
WebhookInit ==
    Start([u \in Users |-> "free"], [u \in Users |-> FALSE],
          [u \in Users |-> Registered], NoHits, 0, MaxDeliveries)

WebhookNext ==
    \/ \E e \in Events, d \in {0, 1} : Deliver(e, d)
    \/ \E e \in Events : DeliverUnsigned(e)
    \/ \E u \in Users, stripe_ok \in BOOLEAN : CreateCheckoutSession(u, stripe_ok)
    \/ \E u \in Users : CancelSubscription(u)

SpecWebhook == WebhookInit /\ [][WebhookNext]_vars

\* The quota gate as a function of the account: the first account starts in
\* any tier, with or without its own API key, without a billing row or with a
\* counter around the two limits.
BoundaryCounters ==
    {0, FREE_TIER_TOKENS_PER_MONTH - 1, FREE_TIER_TOKENS_PER_MONTH,
     FREE_TIER_TOKENS_PER_MONTH + 1, PRO_TIER_INCLUDED_TOKENS - 1,
     PRO_TIER_INCLUDED_TOKENS, PRO_TIER_INCLUDED_TOKENS + 1,
     20 * PRO_TIER_INCLUDED_TOKENS}

QuotaInit ==
    \E t \in Tiers, k \in BOOLEAN,
       row \in {NoBilling} \cup {[Registered EXCEPT !.tokens_used_this_period = c]
                                    : c \in BoundaryCounters} :
        Start([u \in Users |-> IF u = "u1" THEN t ELSE "free"],
              [u \in Users |-> IF u = "u1" THEN k ELSE FALSE],
              [u \in Users |-> IF u = "u1" THEN row ELSE Registered],
              NoHits, MaxRequests, 0)

QuotaNext ==
    \E p \in Workers, kind \in {"sync", "stream"} : Request(p, "u1", kind)

SpecQuota == QuotaInit /\ [][QuotaNext]_vars

\* Both AI endpoints: the first account is billable, the second has its own
\* API key, and a caller may carry no session.
ProxyInit ==
    Start([u \in Users |-> "free"], [u \in Users |-> u = "u2"],
          [u \in Users |-> Registered], NoHits, MaxRequests, 0)

ProxyNext ==
    \/ \E p \in Workers, u \in Users \cup {Anonymous}, kind \in {"sync", "stream"} :
           Request(p, u, kind)
    \/ \E p \in Workers, usage \in UsageChoices : UpstreamReply(p, usage)
    \/ \E p \in Workers : UpstreamError(p)
    \/ \E p \in Workers : StreamChunk(p)
    \/ \E p \in Workers, usage \in UsageChoices : StreamSummary(p, usage)
    \/ \E p \in Workers : StreamResume(p)
    \/ \E p \in Workers : StreamError(p)
    \/ \E p \in Workers : StreamClose(p)
    \/ \E p \in Workers : TrackCommit(p)
    \/ \E p \in Workers : TrackRollback(p)

SpecProxy == ProxyInit /\ [][ProxyNext]_vars

\* The rate limiter alone: one worker serves the requests of two accounts
\* one after the other (the first account uses one endpoint, the second
\* both), the upstream call of each fails, and windows expire.  The first
\* account is an enterprise account or has its own API key; the second is a
\* free account without one.  Each count starts at zero or one below the
\* limit (that many requests were counted in the last minute).
BoundaryHits == {0, RATE_LIMIT_PER_MINUTE - 1}

RateInit ==
    \E exempt \in {"enterprise", "key"}, a, b, c \in BoundaryHits :
        Start([u \in Users |-> IF u = "u1" /\ exempt = "enterprise" THEN "enterprise"
                                                                    ELSE "free"],
              [u \in Users |-> u = "u1" /\ exempt = "key"],
              [u \in Users |-> Registered],
              [NoHits EXCEPT !["u1"]["sync"] = a, !["u2"]["sync"] = b,
                             !["u2"]["stream"] = c],
              MaxBurst, MaxWindows)

RateNext ==
    \/ Request("w1", "u1", "sync")
    \/ \E kind \in Endpoints : Request("w1", "u2", kind)
    \/ UpstreamError("w1")
    \/ StreamError("w1")
    \/ \E key \in Users, endpoint \in Endpoints : WindowExpires(key, endpoint)

SpecRate == RateInit /\ [][RateNext]_vars

\* The accounts from an empty database on: registrations, the account
\* operations and recordings of the registered (logged-in) accounts, and the
\* webhook deliveries.
AccountsInit ==
    Start([u \in Users |-> NoAccount], [u \in Users |-> FALSE],
          [u \in Users |-> NoBilling], NoHits, MaxRecordings, MaxDeliveries)

AccountsNext ==
    \/ \E u \in Users, db_ok \in BOOLEAN : Register(u, db_ok)
    \/ \E u \in Users, stripe_ok \in BOOLEAN :
           Exists(u) /\ CreateCheckoutSession(u, stripe_ok)
    \/ \E u \in Users : Exists(u) /\ CancelSubscription(u)
    \/ \E e \in Events : Deliver(e, 0)
    \/ \E e \in Events : DeliverUnsigned(e)
    \/ \E u \in Users, usage \in UsageChoices : Exists(u) /\ TrackCall("w1", u, usage)
    \/ TrackCommit("w1")
    \/ TrackRollback("w1")

SpecAccounts == AccountsInit /\ [][AccountsNext]_vars

\* The cost model: track_usage computes the cost of calls whose token counts
\* are small (where the exact cost ends in a half micro-dollar) or those of
\* the documented example.
CostTokens == (0 .. MaxTokens) \cup {1000}

CostInit ==
    Start([u \in Users |-> "free"], [u \in Users |-> FALSE],
          [u \in Users |-> Registered], NoHits, MaxCostCalls, 0)

CostNext ==
    \/ \E i \in CostTokens, o \in CostTokens : TrackCall("w1", "u1", <<i, o>>)
    \/ TrackCommit("w1")
    \/ TrackRollback("w1")

SpecCost == CostInit /\ [][CostNext]_vars

\* The quota gate against the ledger: admission checks of the first account
\* while recordings of its earlier requests are in flight.  No checkout, no
\* tier change and no API key is added.
DenialInit ==
    Start([u \in Users |-> "free"], [u \in Users |-> FALSE],
          [u \in Users |-> Registered], NoHits, MaxAdmissions, 0)

DenialNext ==
    \/ \E p \in Workers, usage \in CoreUsage : TrackCall(p, "u1", usage)
    \/ \E p \in Workers : TrackCommit(p)
    \/ \E p \in Workers : TrackRollback(p)
    \/ \E p \in Workers : Request(p, "u1", "sync")
    \/ \E p \in Workers : UpstreamError(p)

SpecDenial == DenialInit /\ [][DenialNext]_vars

\* The life of one subscription: the events about the first account, which
\* opened a checkout session once, and its cancel requests.
LifecycleEvents ==
    {e \in Events : /\ e.user_id \in {"u1", None}
                    /\ e.subscription \in {"sub_1", None}
                    /\ e.customer \in {"cus_1", None}}

LifecycleInit ==
    Start([u \in Users |-> "free"], [u \in Users |-> FALSE],
          [u \in Users |-> WithCustomer(u)], NoHits, 0, MaxLifecycle)

LifecycleNext ==
    \/ \E e \in LifecycleEvents : Deliver(e, 0)
    \/ CancelSubscription("u1")

SpecLifecycle == LifecycleInit /\ [][LifecycleNext]_vars

\* ---------------------------------------------------------------- claims

Counter(u) == billing[u].tokens_used_this_period
RowsOf(u) == SelectSeq(api_usage, LAMBDA row : row.user_id = u)
RowsOfRequest(rid) == SelectSeq(api_usage, LAMBDA row : row.rid = rid)
Recording(u) == \E p \in Workers : pc[p] = "track_commit" /\ req[p].user = u
\* The rows a request must leave: one, with its token counts.
OneRowOf(r) ==
    /\ Len(RowsOfRequest(r.rid)) = 1
    /\ LET row == RowsOfRequest(r.rid)[1]
       IN  /\ row.user_id = r.user
           /\ row.tokens_input = r.tokens_input
           /\ row.tokens_output = r.tokens_output
           /\ row.tokens_used = r.tokens_input + r.tokens_output
\* The monthly ceiling of a metered tier.
Ceiling(tier) ==
    IF tier = "free" THEN FREE_TIER_TOKENS_PER_MONTH ELSE PRO_TIER_INCLUDED_TOKENS
\* A step that delivers the checkout session e with a good signature.
CheckoutStep(e) ==
    /\ events_done' = events_done + 1
    /\ clock' > clock
    /\ last_event' = e

\* C1: once no recording is in progress on the account, the counter has
\* grown by the sum of the tokens of the recordings that committed, and each
\* of them has left exactly one UsageEvent: no interleaving loses an increment.
C1_ConcurrentRecordingsAddUp ==
    (\A p \in Workers : pc[p] # "track_commit") =>
        /\ Counter("u1") = SumTokens(RowsOf("u1"))
        /\ \A p \in Workers :
               pc[p] = "finished" /\ req[p].recorded = "yes" => OneRowOf(req[p])

C3_FailedStreamWritesNothing ==
    \A p \in Workers :
        req[p].status = "stream_error" =>
            /\ pc[p] = "finished"
            /\ req[p].recorded = "no"
            /\ RowsOfRequest(req[p].rid) = <<>>
            /\ Billable(req[p]) => Counter(req[p].user) <= SumTokens(RowsOf(req[p].user))
            /\ Len(req[p].out) = Chunks(req[p]) + 1
            /\ req[p].out[Len(req[p].out)] = "error"

\* A billable stream failed after its chunks.
C3_Witness ==
    \E p \in Workers :
        /\ req[p].status = "stream_error"
        /\ Billable(req[p])
        /\ Chunks(req[p]) = MaxChunks

\* What C4 compares of the accounts: status, counter, external ids, tier.
Replayable ==
    [u \in Users |->
        IF HasBilling(u)
        THEN <<billing[u].subscription_status, billing[u].tokens_used_this_period,
               billing[u].stripe_customer_id, billing[u].stripe_subscription_id,
               subscription_tier[u]>>
        ELSE <<subscription_tier[u]>>]

\* C4: delivering the event of the previous commit once more changes no
\* account's status, counter, external ids or tier.
C4_ReplayInSuccession ==
    [][ ( /\ events_done' = events_done + 1
          /\ last_event # NoEvent
          /\ last_event' = last_event
          /\ replay' )
        => Replayable' = Replayable ]_vars

\* Checkout completed for (u1, pro, sub_1) was delivered twice in succession.
C4_Witness ==
    /\ replay
    /\ last_event = [type |-> "checkout.session.completed", user_id |-> "u1",
                     tier |-> "pro", subscription |-> "sub_1", status |-> None,
                     customer |-> None]
    /\ billing["u1"].subscription_status = "active"
    /\ billing["u1"].tokens_used_this_period = 0
    /\ subscription_tier["u1"] = "pro"

\* C5: delivering a checkout session that was handled before leaves the
\* counter as it is (the usage recorded since the first delivery stays).
C5_ReplayedCheckoutKeepsUsage ==
    [][ \A e \in CheckoutEvents :
            CheckoutStep(e) /\ e \in seen_checkouts /\ HasBilling(e.user_id)
            => Counter(e.user_id)' = Counter(e.user_id) ]_vars

\* C6: for the account without API key, in tier free or pro and with a
\* billing row, the gate allows exactly below the tier's ceiling and denies
\* with the quota message at or above it.
C6_QuotaBoundary ==
    \A p \in Workers :
        ( /\ pc[p] # "idle"
          /\ req[p].user = "u1"
          /\ ~encrypted_api_key["u1"]
          /\ subscription_tier["u1"] \in {"free", "pro"}
          /\ HasBilling("u1") )
        => /\ req[p].gate = "allowed" <=> Counter("u1") < Ceiling(subscription_tier["u1"])
           /\ req[p].gate = "quota_exceeded"
                  <=> Counter("u1") >= Ceiling(subscription_tier["u1"])
           /\ req[p].gate = "quota_exceeded"
                  => pc[p] = "finished" /\ req[p].status = "429"

\* The free account is denied at exactly the ceiling.
C6_Witness ==
    \E p \in Workers :
        /\ req[p].user = "u1"
        /\ req[p].gate = "quota_exceeded"
        /\ subscription_tier["u1"] = "free"
        /\ ~encrypted_api_key["u1"]
        /\ Counter("u1") = FREE_TIER_TOKENS_PER_MONTH

\* A step in which worker p takes a request of user u.
RequestStep(p, u) ==
    /\ started' = started + 1
    /\ req'[p].rid = started + 1
    /\ req'[p].user = u

C8_CounterMonotoneWithinPeriod ==
    [][ \A u \in Users :
            HasBilling(u) =>
                /\ Counter(u)' >= 0
                /\ Counter(u)' < Counter(u) =>
                       \E e \in CheckoutEvents : CheckoutStep(e) /\ e.user_id = u
                /\ (Counter(u)' = 0 /\ Counter(u) # 0) =>
                       \E e \in CheckoutEvents : CheckoutStep(e) /\ e.user_id = u
      ]_vars

\* The UsageEvents of the account created since its period began (all of
\* them when the period start is not set).
RowsInPeriod(u) ==
    SelectSeq(api_usage, LAMBDA row : /\ row.user_id = u
                                      /\ row.created_at >= billing[u].current_period_start)

\* C9: while no recording is in progress for an account, its counter is the
\* sum of the tokens of its UsageEvents of the current period.
C9_CounterMatchesEvents ==
    \A u \in Users :
        HasBilling(u) /\ ~Recording(u) => Counter(u) = SumTokens(RowsInPeriod(u))

RecordingEnds(p) == pc[p] = "track_commit" /\ pc'[p] = "finished"

\* C11: a recording on an account with billing row that succeeds appends one
\* UsageEvent with the call's input, output, total and cost and raises the
\* counter by input + output in the same step; one that fails changes
\* neither table.
C11_RecordingIsAtomicIncrement ==
    [][ \A p \in Workers :
            RecordingEnds(p) /\ HasBilling(req[p].user) =>
                IF req'[p].recorded = "yes"
                THEN /\ Len(api_usage') = Len(api_usage) + 1
                     /\ OneRowOf(req[p])'
                     /\ api_usage'[Len(api_usage')].cost =
                            calculate_cost(req[p].tokens_input, req[p].tokens_output, "model")
                     /\ Counter(req[p].user)' =
                            Counter(req[p].user) + req[p].tokens_input + req[p].tokens_output
                ELSE api_usage' = api_usage /\ billing' = billing ]_vars

\* C12: when the view of a non-streaming request of a billable caller has
\* got its upstream response, the recording it makes leaves exactly one
\* UsageEvent with the response's counts and raises the counter by their sum.
C12_AnsweredRequestRecorded ==
    [][ \A p \in Workers :
            RecordingEnds(p) /\ req[p].kind = "sync" /\ req[p].status = "200" =>
                /\ OneRowOf(req[p])'
                /\ Counter(req[p].user)' =
                       Counter(req[p].user) + req[p].tokens_input + req[p].tokens_output
      ]_vars

\* C13: a request of the account with its own API key passes the quota gate,
\* in every tier, at every counter and without billing row.
C13_PrivateCredentialAllowed ==
    \A p \in Workers :
        pc[p] # "idle" /\ req[p].user = "u1" /\ encrypted_api_key["u1"]
        => /\ req[p].gate = "allowed"
           /\ req[p].is_byok
           /\ pc[p] \in {"upstream", "stream"}

\* The free account with its own key is admitted at a counter of 1000000.
C13_Witness ==
    \E p \in Workers :
        /\ req[p].user = "u1"
        /\ encrypted_api_key["u1"]
        /\ subscription_tier["u1"] = "free"
        /\ HasBilling("u1")
        /\ Counter("u1") = 20 * PRO_TIER_INCLUDED_TOKENS
        /\ req[p].gate = "allowed"

\* C14 as stated: a request of an enterprise account passes the quota gate
\* whatever its counter and its billing row.
C14_EnterpriseAlwaysAllowed ==
    \A p \in Workers :
        pc[p] # "idle" /\ req[p].user = "u1" /\ subscription_tier["u1"] = "enterprise"
        => req[p].gate = "allowed"

\* C14 as amended: the gate looks for the API key, then for the billing row,
\* then at the tier: an enterprise account with a billing row (or with its own
\* key) is admitted at every counter, and one without key and without billing
\* row is denied for the missing row.
C14_EnterpriseWithRecordAllowed ==
    \A p \in Workers :
        pc[p] # "idle" /\ req[p].user = "u1" /\ subscription_tier["u1"] = "enterprise"
        => /\ (HasBilling("u1") \/ encrypted_api_key["u1"]) => req[p].gate = "allowed"
           /\ (~HasBilling("u1") /\ ~encrypted_api_key["u1"])
                  => req[p].gate = "billing_not_found"

\* The enterprise account without key is admitted far above both limits.
C14_Witness ==
    \E p \in Workers :
        /\ req[p].user = "u1"
        /\ subscription_tier["u1"] = "enterprise"
        /\ ~encrypted_api_key["u1"]
        /\ HasBilling("u1")
        /\ Counter("u1") = 20 * PRO_TIER_INCLUDED_TOKENS
        /\ req[p].gate = "allowed"

\* C15: a request of an account without API key and without billing row is
\* denied for the missing row, in every tier, and ends with 429 before any
\* upstream call.
C15_MissingRecordDenied ==
    \A p \in Workers :
        pc[p] # "idle" /\ req[p].user = "u1" /\ ~encrypted_api_key["u1"]
        /\ ~HasBilling("u1")
        => /\ req[p].gate = "billing_not_found"
           /\ pc[p] = "finished"
           /\ req[p].status = "429"
           /\ req[p].rate = "none"

\* An enterprise account without billing row was denied.
C15_Witness ==
    \E p \in Workers :
        /\ req[p].user = "u1"
        /\ subscription_tier["u1"] = "enterprise"
        /\ ~encrypted_api_key["u1"]
        /\ ~HasBilling("u1")
        /\ req[p].status = "429"

\* The request of worker p has reached the upstream provider.
Dispatched(p) ==
    \/ pc[p] \in {"upstream", "stream", "at_done", "track_commit"}
    \/ req[p].status \in {"200", "500", "stream_error", "closed"}

\* C16: on every request the rate limiter has been asked, the quota gate is
\* asked only after the rate limiter has let the request pass, a request that
\* either of them denied is over with no upstream call and no UsageEvent, and
\* a request reaches the upstream provider only after the quota gate has been
\* asked about it.
C16_GatesBeforeUpstream ==
    \A p \in Workers :
        pc[p] # "idle" =>
            /\ req[p].rate # "none"
            /\ req[p].gate # "none" => req[p].rate = "allowed"
            /\ req[p].status = "429" =>
                   /\ pc[p] = "finished"
                   /\ req[p].out = <<>>
                   /\ RowsOfRequest(req[p].rid) = <<>>
            /\ Dispatched(p) => req[p].gate = "allowed"

\* C17: no request of a caller without session reaches the upstream provider.
C17_NoAnonymousUpstream ==
    \A p \in Workers : req[p].user = Anonymous => ~Dispatched(p)

\* C18: a request of an account with its own API key is dispatched with that
\* key and is never recorded, on either endpoint: it leaves no UsageEvent, and
\* the account's counter stays where it was.
C18_PrivateCredentialNotBilled ==
    /\ \A p \in Workers :
           pc[p] # "idle" /\ req[p].user \in Users /\ encrypted_api_key[req[p].user]
           => /\ req[p].is_byok
              /\ pc[p] # "track_commit"
              /\ req[p].recorded = "no"
              /\ RowsOfRequest(req[p].rid) = <<>>
    /\ \A u \in Users : encrypted_api_key[u] => Counter(u) = 0 /\ RowsOf(u) = <<>>

\* The account with its own key was answered on both endpoints.
C18_Witness ==
    \E p, q \in Workers :
        /\ req[p].is_byok /\ req[p].kind = "sync" /\ req[p].status = "200"
        /\ req[q].is_byok /\ req[q].kind = "stream" /\ req[q].status = "200"
        /\ pc[p] = "finished" /\ pc[q] = "finished"

\* C19: no request of the enterprise account or of the account with its own
\* API key is denied by the rate limiter.
C19_ExemptNeverThrottled ==
    \A p \in Workers :
        ( /\ req[p].user \in Users
          /\ \/ subscription_tier[req[p].user] = "enterprise"
             \/ encrypted_api_key[req[p].user] )
        => req[p].rate # "denied"

\* The requests of an identity counted on all endpoints.
HitsOf(key) == hits[key]["sync"] + hits[key]["stream"]

DEFAULT_PER_MINUTE == 50

\* ai_request_limit, lines 179-180: the per-minute ceiling the decorator
\* would apply.  No route is decorated with it.
ai_request_limit == DEFAULT_PER_MINUTE \div 2

\* C21: a request of the free account without key to an AI-proxy endpoint
\* passes the rate limiter exactly when fewer than half the default
\* per-minute ceiling (25) of its requests to that endpoint were counted in
\* the current window.
C21_AiCeilingIsHalfDefault ==
    [][ \A p \in Workers, kind \in Endpoints :
            RequestStep(p, "u2") /\ req'[p].kind = kind /\ req'[p].gate = "allowed" =>
                (req'[p].rate = "allowed" <=> hits["u2"][kind] < ai_request_limit) ]_vars

\* A step of stripe_webhook that verified the signature of event e and
\* dispatched it.
DeliverStep(e) ==
    /\ events_done' = events_done + 1
    /\ last_event' = e
    /\ prev_event' = last_event
    /\ answer' \in {"200", "500"}

\* C22 as stated: checkout completed for an account with a billing row sets
\* the status to active, the counter to 0, the period start to now, the
\* period end to exactly 30 days after the start and the tier to the
\* purchased tier, whatever the status was.
C22_CheckoutExactPeriod ==
    [][ \A e \in CheckoutEvents :
            DeliverStep(e) /\ HasBilling(e.user_id) =>
                /\ billing'[e.user_id].subscription_status = "active"
                /\ billing'[e.user_id].tokens_used_this_period = 0
                /\ billing'[e.user_id].current_period_start = clock + 1
                /\ billing'[e.user_id].current_period_end =
                       billing'[e.user_id].current_period_start + PERIOD_DAYS
                /\ subscription_tier'[e.user_id] = e.tier ]_vars

\* C22 as amended: when no other billing row holds the session's
\* subscription id, checkout completed sets the status to active, the counter
\* to 0, the period start to the first reading of the clock, the period end
\* to 30 days after the second reading (so at least 30 days after the
\* start), the subscription id and the tier to the purchased ones, whatever
\* the status was, and is answered with success; when another row holds the
\* id nothing changes and the delivery is answered with 500.
C22_CheckoutApplied ==
    [][ \A e \in CheckoutEvents :
            DeliverStep(e) /\ HasBilling(e.user_id) =>
                IF BySubscription(Accounts, e.subscription) \ {e.user_id} = {}
                THEN /\ billing'[e.user_id].subscription_status = "active"
                     /\ billing'[e.user_id].tokens_used_this_period = 0
                     /\ billing'[e.user_id].current_period_start = clock + 1
                     /\ billing'[e.user_id].current_period_end = clock' + PERIOD_DAYS
                     /\ billing'[e.user_id].current_period_end >=
                            billing'[e.user_id].current_period_start + PERIOD_DAYS
                     /\ billing'[e.user_id].stripe_subscription_id = e.subscription
                     /\ subscription_tier'[e.user_id] = e.tier
                     /\ \A v \in Users \ {e.user_id} :
                            billing'[v] = billing[v]
                              /\ subscription_tier'[v] = subscription_tier[v]
                     /\ answer' = "200"
                ELSE /\ billing' = billing
                     /\ subscription_tier' = subscription_tier
                     /\ answer' = "500" ]_vars

\* A checkout was applied to a record that a failed payment had put past
\* due, and the two clock readings differed.
C22_Witness ==
    /\ last_event = [type |-> "checkout.session.completed", user_id |-> "u1",
                      tier |-> "pro", subscription |-> "sub_1", status |-> None,
                      customer |-> None]
    /\ prev_event \in FailedEvents
    /\ prev_event.customer = billing["u1"].stripe_customer_id
    /\ billing["u1"].subscription_status = "active"
    /\ subscription_tier["u1"] = "pro"
    /\ billing["u1"].current_period_end >
           billing["u1"].current_period_start + PERIOD_DAYS

\* C23: subscription deleted for a subscription id that a billing row holds
\* sets that row's status to canceled, clears its subscription id and sets
\* the account's tier to free; the counter and the period boundaries stay.
C23_DeletedCancelsAndDowngrades ==
    [][ \A e \in DeletedEvents, u \in Users :
            DeliverStep(e) /\ u \in BySubscription(Accounts, e.subscription) =>
                /\ billing'[u].subscription_status = "canceled"
                /\ billing'[u].stripe_subscription_id = None
                /\ subscription_tier'[u] = "free"
                /\ billing'[u].tokens_used_this_period =
                       billing[u].tokens_used_this_period
                /\ billing'[u].current_period_start = billing[u].current_period_start
                /\ billing'[u].current_period_end = billing[u].current_period_end ]_vars

\* Subscription deleted was applied to a paid account that had used tokens
\* in its period.
C23_Witness ==
    /\ last_event \in DeletedEvents
    /\ last_event.subscription = "sub_1"
    /\ billing["u1"].subscription_status = "canceled"
    /\ billing["u1"].stripe_subscription_id = None
    /\ subscription_tier["u1"] = "free"
    /\ billing["u1"].tokens_used_this_period > 0
    /\ billing["u1"].current_period_end > 0

\* C24: subscription updated for a subscription id that a billing row holds
\* sets that row's status to the payload's status and changes no other
\* column of it, no other row and no tier.
C24_UpdatedSetsStatusOnly ==
    [][ \A e \in UpdatedEvents, u \in Users :
            DeliverStep(e) /\ u \in BySubscription(Accounts, e.subscription) =>
                /\ billing' = [billing EXCEPT ![u].subscription_status = e.status]
                /\ subscription_tier' = subscription_tier ]_vars

\* Subscription updated (past_due) was applied to a paid account that had
\* used tokens in its period.
C24_Witness ==
    /\ last_event \in UpdatedEvents
    /\ last_event.subscription = billing["u1"].stripe_subscription_id
    /\ billing["u1"].subscription_status = last_event.status
    /\ billing["u1"].subscription_status # "active"
    /\ subscription_tier["u1"] \in PaidTiers
    /\ billing["u1"].tokens_used_this_period > 0

\* C25: payment failed for a customer id that a billing row holds sets that
\* row's status to past_due and changes no other column of it, no other row
\* and no tier; the row is the one holding the customer id, whatever its
\* subscription id.
C25_PaymentFailedByCustomer ==
    [][ \A e \in FailedEvents, u \in Users :
            DeliverStep(e) /\ u \in ByCustomer(Accounts, e.customer) =>
                /\ billing' = [billing EXCEPT ![u].subscription_status = "past_due"]
                /\ subscription_tier' = subscription_tier ]_vars

\* Payment failed was applied to the paid account, found by its customer id
\* while the other account's row holds no subscription id.
C25_Witness ==
    /\ last_event \in FailedEvents
    /\ last_event.customer = billing["u1"].stripe_customer_id
    /\ billing["u1"].subscription_status = "past_due"
    /\ billing["u1"].stripe_subscription_id = "sub_1"
    /\ billing["u2"].stripe_subscription_id = None
    /\ billing["u2"].subscription_status = "inactive"
    /\ billing["u1"].tokens_used_this_period > 0

\* The event is of a type stripe_webhook has no handler for, or of a handled
\* type and names a subscription or customer id that no billing row holds.
Unmatched(e) ==
    \/ e \in OtherEvents
    \/ e \in UpdatedEvents \cup DeletedEvents
         /\ BySubscription(Accounts, e.subscription) = {}
    \/ e \in FailedEvents /\ ByCustomer(Accounts, e.customer) = {}

\* C26: a signed event of an unhandled type, and a signed event of a handled
\* type whose external id no billing row holds, are answered with success
\* and change no billing row and no tier.
C26_UnmatchedEventsChangeNothing ==
    [][ \A e \in Events :
            DeliverStep(e) /\ Unmatched(e) =>
                /\ answer' = "200"
                /\ billing' = billing
                /\ subscription_tier' = subscription_tier ]_vars

\* Before any checkout, a subscription event (no row holds a subscription
\* id) and then invoice.paid for the first account's customer id were
\* delivered and answered with success.
C26_Witness ==
    /\ seen_checkouts = {}
    /\ prev_event \in UpdatedEvents \cup DeletedEvents
    /\ last_event \in OtherEvents
    /\ last_event.customer = billing["u1"].stripe_customer_id
    /\ answer = "200"
    /\ billing["u1"].subscription_status = "inactive"

\* C27: a delivery whose signature does not verify is answered with 400 and
\* no handler runs: no billing row, no tier and no period timestamp changes,
\* and no event is recorded as handled.
C27_UnsignedDeliveryRejected ==
    [][ events_done' = events_done + 1 /\ answer' = "400" =>
            /\ billing' = billing
            /\ subscription_tier' = subscription_tier
            /\ clock' = clock
            /\ seen_checkouts' = seen_checkouts
            /\ last_event' = last_event ]_vars

\* A delivery was rejected while the first account is subscribed and holds a
\* customer id, so that every handler had a row to write.
C27_Witness ==
    /\ answer = "400"
    /\ billing["u1"].stripe_subscription_id = "sub_1"
    /\ billing["u1"].stripe_customer_id = "cus_1"
    /\ billing["u1"].subscription_status = "active"

\* C28: after subscription updated events for one subscription id, in
\* whatever order, the row that holds the id has the status of the event
\* delivered last.
C28_LastUpdateWins ==
    \A u \in Users :
        ( /\ last_event \in UpdatedEvents
          /\ HasBilling(u)
          /\ billing[u].stripe_subscription_id = last_event.subscription )
        => billing[u].subscription_status = last_event.status

\* Two subscription updated events for the first account's subscription were
\* delivered in succession, unpaid first and active last.
C28_Witness ==
    /\ prev_event \in UpdatedEvents
    /\ last_event \in UpdatedEvents
    /\ prev_event.subscription = "sub_1"
    /\ last_event.subscription = "sub_1"
    /\ prev_event.status = "unpaid"
    /\ last_event.status = "active"
    /\ billing["u1"].stripe_subscription_id = "sub_1"
    /\ billing["u1"].subscription_status = "active"

\* The account's row was subscribed with subscription id by a checkout and
\* the last dispatched event, subscription deleted for that id, left it
\* canceled.
CanceledByDeleted(u, id) ==
    /\ last_event \in DeletedEvents
    /\ last_event.subscription = id
    /\ \E c \in seen_checkouts : c.user_id = u /\ c.subscription = id
    /\ HasBilling(u)
    /\ billing[u].subscription_status = "canceled"

DiagramEdges ==
    {<<"inactive", "active">>, <<"active", "canceling">>,
     <<"canceling", "canceled">>, <<"active", "past_due">>,
     <<"past_due", "active">>}

\* The account's row changes its status in this step.
StatusChanges(u) ==
    /\ HasBilling(u)
    /\ HasBilling(u)'
    /\ billing'[u].subscription_status # billing[u].subscription_status

\* C30 as stated: every change of a row's status, under any sequence of
\* webhook events and cancel requests, follows an edge of the diagram.
C30_StatusFollowsDiagram ==
    [][ \A u \in Users :
            StatusChanges(u) =>
                <<billing[u].subscription_status,
                  billing'[u].subscription_status>> \in DiagramEdges ]_vars

\* C30 as amended: every change of a row's status is made by one of five
\* operations, each from whatever status the row had: to active by checkout
\* completed for the account, to the payload's status by subscription
\* updated for the subscription id the row holds, to canceled by
\* subscription deleted for that id, to past_due by payment failed for the
\* customer id the row holds, and to canceling by a cancel request of an
\* account whose row holds a subscription id.
C30_StatusChangedByOperation ==
    [][ \A u \in Users :
            StatusChanges(u) =>
                \/ \E e \in CheckoutEvents :
                       /\ DeliverStep(e)
                       /\ e.user_id = u
                       /\ billing'[u].subscription_status = "active"
                \/ \E e \in UpdatedEvents :
                       /\ DeliverStep(e)
                       /\ billing[u].stripe_subscription_id = e.subscription
                       /\ billing'[u].subscription_status = e.status
                \/ \E e \in DeletedEvents :
                       /\ DeliverStep(e)
                       /\ billing[u].stripe_subscription_id = e.subscription
                       /\ billing'[u].subscription_status = "canceled"
                \/ \E e \in FailedEvents :
                       /\ DeliverStep(e)
                       /\ billing[u].stripe_customer_id = e.customer
                       /\ billing'[u].subscription_status = "past_due"
                \/ /\ events_done' = events_done + 1
                   /\ answer' = "none"
                   /\ last_event' = NoEvent
                   /\ billing[u].stripe_subscription_id # None
                   /\ billing'[u].subscription_status = "canceling" ]_vars

\* Payment failed put past due a row that no checkout had activated: the
\* status went from inactive to past_due.
C30_Witness ==
    /\ seen_checkouts = {}
    /\ last_event \in FailedEvents
    /\ last_event.customer = billing["u1"].stripe_customer_id
    /\ billing["u1"].subscription_status = "past_due"
    /\ billing["u1"].stripe_subscription_id = None

\* The statuses the code writes as literals: the column default and the
\* assignments of the handlers and of cancel_subscription.
LiteralStatuses == {"inactive", "active", "past_due", "canceling", "canceled"}

\* C31 as stated: the status of every billing row is one of inactive,
\* active, past_due, canceling, canceled, trialing.
C31_StatusEnumerated ==
    \A u \in Users :
        HasBilling(u) =>
            billing[u].subscription_status \in LiteralStatuses \cup {"trialing"}

\* C31 as amended: the status of every billing row is one of inactive,
\* active, past_due, canceling, canceled, or a status that a subscription
\* updated payload carries.
C31_StatusLiteralOrPayload ==
    \A u \in Users :
        HasBilling(u) =>
            billing[u].subscription_status \in LiteralStatuses \cup PayloadStatuses

\* Subscription updated wrote the payload's status unpaid to the row of a
\* subscribed account.
C31_Witness ==
    /\ last_event \in UpdatedEvents
    /\ last_event.status = "unpaid"
    /\ billing["u2"].stripe_subscription_id = last_event.subscription
    /\ billing["u2"].subscription_status = "unpaid"

\* C32: every account has its billing row and only accounts have one;
\* registration creates the account with its row (status inactive, tier
\* free, counter 0); a row appears only with its account, and no step
\* removes a row or an account.
C32_OneBillingRecordPerAccount ==
    [][ \A u \in Users :
            /\ Exists(u) <=> HasBilling(u)
            /\ Exists(u)' <=> HasBilling(u)'
            /\ ~Exists(u) /\ Exists(u)' =>
                   /\ subscription_tier'[u] = "free"
                   /\ billing'[u] = NewBilling
                   /\ billing'[u].subscription_status = "inactive"
                   /\ billing'[u].tokens_used_this_period = 0
            /\ ~HasBilling(u) /\ HasBilling(u)' => ~Exists(u)
            /\ HasBilling(u) => HasBilling(u)'
            /\ Exists(u) => Exists(u)' ]_vars

\* Both accounts are registered; the first one subscribed and the second
\* one opened a checkout session, and each has its row.
C32_Witness ==
    /\ Exists("u1")
    /\ Exists("u2")
    /\ HasBilling("u1")
    /\ HasBilling("u2")
    /\ billing["u1"].subscription_status = "active"
    /\ subscription_tier["u2"] = "free"

\* C33: a streaming request whose generator was closed at one of its yields
\* (a chunk or the final [DONE]) is over, its upstream stream is closed and
\* no UsageEvent was or will be written for it.
C33_CancelledStreamWritesNothing ==
    \A p \in Workers :
        req[p].status = "closed" =>
            /\ pc[p] = "finished"
            /\ ~UpstreamOpen(p)
            /\ req[p].recorded = "no"
            /\ RowsOfRequest(req[p].rid) = <<>>

\* A billable stream was closed at its [DONE] event, after its chunks and
\* its summary.
C33_Witness ==
    \E p \in Workers :
        /\ req[p].status = "closed"
        /\ Billable(req[p])
        /\ Chunks(req[p]) >= 1
        /\ req[p].out[Len(req[p].out)] = "done"
        /\ req[p].tokens_input > 0

\* A billable stream was closed at a chunk, inside the with-block.
C33_WitnessAtChunk ==
    \E p \in Workers :
        /\ req[p].status = "closed"
        /\ Billable(req[p])
        /\ Chunks(req[p]) >= 1
        /\ req[p].out[Len(req[p].out)] = "chunk"

\* The non-streaming request of the worker got its error answer and is over:
\* the view makes no further call and wrote no UsageEvent for it.
FailedAndOver(p) ==
    req[p].status = "500" =>
        /\ pc[p] = "finished"
        /\ req[p].recorded = "no"
        /\ RowsOfRequest(req[p].rid) = <<>>

ExactCost(row) ==
    (row.tokens_input * ANTHROPIC_INPUT_PRICE + row.tokens_output * ANTHROPIC_OUTPUT_PRICE)
        * (100 + MARKUP_PERCENTAGE)

\* Model names a caller may pass.
Models == {"claude-3-5-sonnet-20241022", "claude-3-opus-20240229"}

\* C35 as stated: the cost of every UsageEvent is its exact cost rounded to
\* six fractional digits with ties taken up; it does not depend on the
\* model, is never negative and is 0 for (0, 0).
C35_CostRoundedHalfUp ==
    \A k \in DOMAIN api_usage :
        LET row == api_usage[k]
        IN  /\ row.cost = (ExactCost(row) + 50) \div 100
            /\ \A m \in Models :
                   calculate_cost(row.tokens_input, row.tokens_output, m) = row.cost
            /\ row.cost >= 0
            /\ row.tokens_input = 0 /\ row.tokens_output = 0 => row.cost = 0

\* C35 as amended: the cost of every UsageEvent is a whole number of
\* micro-dollars nearest to its exact cost, and of the two nearest the even
\* one when the exact cost ends in a half micro-dollar; it does not depend
\* on the model, is never negative, is 0 for (0, 0) and 0.020700 for
\* (1000, 1000).
C35_CostRoundedHalfEven ==
    \A k \in DOMAIN api_usage :
        LET row == api_usage[k]
            off == 100 * row.cost - ExactCost(row)
        IN  /\ 2 * off <= 100
            /\ 2 * off >= -100
            /\ (2 * off = 100 \/ 2 * off = -100) => row.cost % 2 = 0
            /\ \A m \in Models :
                   calculate_cost(row.tokens_input, row.tokens_output, m) = row.cost
            /\ row.cost >= 0
            /\ row.tokens_input = 0 /\ row.tokens_output = 0 => row.cost = 0
            /\ row.tokens_input = 1000 /\ row.tokens_output = 1000 => row.cost = 20700

\* The UsageEvent of a call with 10 input tokens and no output tokens, whose
\* exact cost is 34.5 micro-dollars, was written with the cost 34.
C35_Witness ==
    \E k \in DOMAIN api_usage :
        /\ api_usage[k].tokens_input = 10
        /\ api_usage[k].tokens_output = 0
        /\ 2 * ExactCost(api_usage[k]) = 6900
        /\ api_usage[k].cost = 34

\* The recording of the worker read the billing row before the checkout
\* that began the row's current period committed.
ReadBeforeReset(p) ==
    /\ pc[p] = "track_commit"
    /\ req[p].rd >= 0
    /\ HasBilling(req[p].user)
    /\ req[p].created_at < billing[req[p].user].current_period_start

\* C36: a recording in flight while a checkout completed resets the counter
\* does not undo the reset: when it commits, the counter grows by at most
\* its own tokens, so it holds nothing that was counted before the reset.
C36_ResetNotUndone ==
    [][ \A p \in Workers :
            ReadBeforeReset(p) /\ RecordingEnds(p) =>
                Counter(req[p].user)' <=
                    Counter(req[p].user) + req[p].tokens_input + req[p].tokens_output ]_vars

\* C37: once the quota gate has denied the metered account, every later
\* admission check of the account is denied as well, however the recordings
\* in flight interleave (no checkout, tier change or API key intervenes).
C37_DenialIsStable ==
    [][ \A p \in Workers, q \in Workers :
            ( /\ req[q].user = "u1"
              /\ req[q].gate = "quota_exceeded"
              /\ RequestStep(p, "u1")
              /\ req'[p].kind = "sync" )
            => req'[p].gate = "quota_exceeded" ]_vars

\* The account's row holds no subscription id: it never subscribed, or
\* subscription deleted was applied to it and no checkout since.
Unsubscribed(u) == HasBilling(u) /\ billing[u].stripe_subscription_id = None

\* A webhook step other than a checkout completed for the account.
OtherEventStep(u) ==
    \E e \in Events : DeliverStep(e) /\ ~(e \in CheckoutEvents /\ e.user_id = u)

\* C38 as stated: once subscription deleted has been applied to a row, the
\* row's status stays canceled and the account's tier stays free under every
\* webhook event that is not a checkout completed for the account.
C38_CanceledUntilCheckout ==
    [][ \A u \in Users :
            ( /\ Unsubscribed(u)
              /\ billing[u].subscription_status = "canceled"
              /\ OtherEventStep(u) )
            => /\ billing'[u].subscription_status = "canceled"
               /\ subscription_tier'[u] = "free" ]_vars

\* C38 as amended: subscription deleted leaves the row canceled, without
\* subscription id, and the tier free; from then on, under every webhook
\* event and cancel request that is not a checkout completed for the
\* account, the tier stays free and the row stays without subscription id,
\* and the status stays as it is except that payment failed for the row's
\* customer id sets it to past_due.
C38_FreeUntilCheckout ==
    [][ \A u \in Users :
            /\ \A e \in DeletedEvents :
                   DeliverStep(e) /\ u \in BySubscription(Accounts, e.subscription) =>
                       /\ Unsubscribed(u)'
                       /\ billing'[u].subscription_status = "canceled"
                       /\ subscription_tier'[u] = "free"
            /\ ( /\ Unsubscribed(u)
                 /\ ~(\E e \in CheckoutEvents : DeliverStep(e) /\ e.user_id = u) )
               => /\ Unsubscribed(u)'
                  /\ subscription_tier'[u] = subscription_tier[u]
                  /\ \/ billing'[u].subscription_status = billing[u].subscription_status
                     \/ /\ billing'[u].subscription_status = "past_due"
                        /\ \E e \in FailedEvents :
                               /\ DeliverStep(e)
                               /\ e.customer = billing[u].stripe_customer_id ]_vars

\* Checkout, subscription deleted and then payment failed were delivered
\* for the first account: its tier is free and its status past_due.
C38_Witness ==
    /\ prev_event \in DeletedEvents
    /\ last_event \in FailedEvents
    /\ last_event.customer = billing["u1"].stripe_customer_id
    /\ \E c \in seen_checkouts : c.user_id = "u1" /\ c.subscription = prev_event.subscription
    /\ Unsubscribed("u1")
    /\ subscription_tier["u1"] = "free"
    /\ billing["u1"].subscription_status = "past_due"
    /\ billing["u1"].current_period_end > 0

\* C39 as stated: a row whose status is canceled belongs to an account
\* whose tier is free, and an account with a paid tier (raised by checkout
\* completed: every account starts free) has a row that holds a
\* subscription id.
C39_TierStatusCoherent ==
    \A u \in Users :
        HasBilling(u) =>
            /\ billing[u].subscription_status = "canceled" => subscription_tier[u] = "free"
            /\ subscription_tier[u] \in PaidTiers =>
                   billing[u].stripe_subscription_id # None

\* C39 as amended: an account with a paid tier has a row that holds a
\* subscription id, so a row without subscription id (never subscribed, or
\* canceled by subscription deleted) belongs to an account whose tier is
\* free; a canceled row of a paid account holds its subscription id (its
\* status was written by subscription updated, which leaves the tier).
C39_PaidTierHasSubscription ==
    \A u \in Users :
        HasBilling(u) =>
            /\ subscription_tier[u] \in PaidTiers =>
                   billing[u].stripe_subscription_id # None
            /\ billing[u].stripe_subscription_id = None => subscription_tier[u] = "free"
            /\ billing[u].subscription_status = "canceled" =>
                   \/ subscription_tier[u] = "free"
                   \/ billing[u].stripe_subscription_id # None

\* Subscription updated with the status canceled was applied to the
\* subscribed first account: the row is canceled and the tier is paid.
C39_Witness ==
    /\ last_event \in UpdatedEvents
    /\ last_event.status = "canceled"
    /\ billing["u1"].stripe_subscription_id = last_event.subscription
    /\ billing["u1"].subscription_status = "canceled"
    /\ subscription_tier["u1"] \in PaidTiers

====
